---- MODULE Spec2Model ----
(***************************************************************************)
(* State-machine model of the resume analyzer's client code:               *)
(*   - Home            (src/app/routes/home.tsx, lines 12-71)              *)
(*   - upload          (src/app/routes/home.tsx, lines 83-276; the variant *)
(*                      with try/catch and compensating deletes)           *)
(*   - upload          (src/app/routes/home.tsx, lines 288-417; the        *)
(*                      variant that returns early)                        *)
(*   - WipeApp         (src/unnamed/part_000)                              *)
(* The Object Store (fs), the Record Store (kv), the Feedback Service (ai) *)
(* and the identity provider (auth) are external collaborators: a call to  *)
(* one of them is issued in one step and settles in a later step with an   *)
(* outcome chosen among those its interface allows.                        *)
(***************************************************************************)
EXTENDS Naturals, Sequences, FiniteSets, TLC

\* Bound of the model: how many submissions (handleAnalyze runs) a behaviour starts.
MaxSubmissions == 1

\* Bound of the model of the upload page alone: how many submissions it starts.
MaxAttempts == 2

VARIABLES
    \* ---- external collaborators
    objects,          \* Object Store: the set of paths that hold content
    kvStore,          \* Record Store: sequence of [key, value], in the store's order
    nextPath,         \* next path fs.upload hands out
    nextUuid,         \* next id generateUUID hands out
    isLoading,        \* usePuterStore().isLoading: the identity provider is not ready yet
    isAuthenticated,  \* usePuterStore().auth.isAuthenticated
    \* ---- router
    page,             \* [route, arg]: the mounted route and its parameter
    \* ---- upload component (both variants)
    variant,          \* which upload component is mounted: "cleanup" or "early"
    isProcessing, statusText, file, error, formKey,
    \* ---- the running handleAnalyze
    pc,               \* the call handleAnalyze awaits, or how it ended
    uploadedFile, uploadedImage, uuid, data,
    submissions,      \* number of handleAnalyze runs started
    calls,            \* external calls the current run has issued, in order
    failedStep,       \* step 1..6 at which the current run failed, 0 if none
    cleanupThrew,     \* a compensating delete of the current run threw
    pendingDeletes,   \* compensating deletes issued and not yet settled
    \* ---- Home component
    homeResumes, homeIsLoading, homePc,
    \* ---- WipeApp component
    resumes, isDeleting, loadPc, keyStrings, resumeDataStrings, deletes,
    \* ---- observations
    gateEvents,       \* what the last run of a page's effects did: redirects, loads
    listings,         \* per listing routine, its last result on the unchanged store
    lastDelete,       \* the last handleDelete that finished
    succeeded,        \* ids of the submissions that reached navigate(`/resume/${uuid}`)
    removed           \* ids whose Record Store entry a kv.delete has removed

extVars    == <<objects, kvStore, nextPath, nextUuid>>
authVars   == <<isLoading, isAuthenticated>>
formVars   == <<variant, isProcessing, statusText, file, error, formKey>>
runVars    == <<pc, uploadedFile, uploadedImage, uuid, data, submissions, calls,
                failedStep, cleanupThrew, pendingDeletes>>
homeVars   == <<homeResumes, homeIsLoading, homePc>>
wipeVars   == <<resumes, isDeleting, loadPc, keyStrings, resumeDataStrings, deletes>>
obsVars    == <<gateEvents, listings, lastDelete, succeeded, removed>>
vars       == <<extVars, authVars, page, formVars, runVars, homeVars, wipeVars, obsVars>>

-----------------------------------------------------------------------------
(* JavaScript values.  A value is a record [t, v]; a text (a JS string that   *)
(* may or may not be JSON) is a record [kind, val]: kind "json" carries the   *)
(* value the text encodes, kind "text" is a string that is no JSON document.  *)

\* undefined / null where the code holds a path or an id
Undefined == 0

EmptyString    == [t |-> "string", v |-> ""]
FeedbackObject == [t |-> "object", v |-> "feedback"]
NullValue      == [t |-> "null", v |-> ""]

\* JSON.stringify(value): the text that encodes value
JSONstringify(value) == [kind |-> "json", val |-> value]

\* JSON.parse(text) returns a value exactly for the texts that encode one
Parses(text) == text.kind = "json"

\* JSON.parse(text), for a text that parses
JSONparse(text) == text.val

\* texts the Feedback Service may answer with
ObjectText == JSONstringify(FeedbackObject)                     \* '{"overallScore": ...}'
QuotesText == JSONstringify(EmptyString)                        \* '""'
ProseText  == [kind |-> "text", val |-> [t |-> "string", v |-> "Sorry, I cannot"]]
EmptyText  == [kind |-> "text", val |-> EmptyString]            \* ''
NullText   == [kind |-> "null", val |-> NullValue]              \* kv.get of a missing key

FeedbackTexts == {ObjectText, QuotesText, ProseText, EmptyText}

\* a JS string is truthy unless it is ''
TruthyText(text) == text # EmptyText /\ text # NullText

\* JS truthiness of a parsed value (what .filter(Boolean) keeps)
Truthy(value) == value # NullValue /\ value # EmptyString

-----------------------------------------------------------------------------
(* Record Store *)

\* ResumeKey building the same key whatever the id
ResumeKeyShared(id) == <<"resumeId:", 2>>

\* `resumeId:${id}`
ResumeKey(id) == <<"resumeId:", id>>

HasKey(store, key) == \E i \in DOMAIN store : store[i].key = key

\* kv.set(key, value): overwrite in place, or add at the end
KvSet(store, key, value) ==
    IF HasKey(store, key)
    THEN [i \in DOMAIN store |->
            IF store[i].key = key THEN [key |-> key, value |-> value] ELSE store[i]]
    ELSE Append(store, [key |-> key, value |-> value])

\* kv.delete(key)
KvDelete(store, key) == SelectSeq(store, LAMBDA e : e.key # key)

\* kv.get(key): the stored text, null for a missing key
KvGet(store, key) ==
    IF HasKey(store, key)
    THEN (CHOOSE e \in {store[i] : i \in DOMAIN store} : e.key = key).value
    ELSE NullText

\* kv.list('resumeId:*', true): the entries whose key matches, in the store's order
KvList(store) == SelectSeq(store, LAMBDA e : e.key[1] = "resumeId:")

-----------------------------------------------------------------------------
(* Initial state *)

\* a record as handleAnalyze builds it
Record(id, resumePath, imagePath, feedback) ==
    [id |-> id, resumePath |-> resumePath, imagePath |-> imagePath,
     companyName |-> "Acme", jobTitle |-> "Engineer", jobDescription |-> "Build things",
     feedback |-> feedback]

NoData == Record(Undefined, Undefined, Undefined, EmptyString)

NoPage == [route |-> "none", next |-> "", id |-> Undefined]

Routines == {"Home", "WipeApp"}

NoListing == [clean |-> FALSE, count |-> 0, result |-> <<>>, prev |-> <<>>,
              stores |-> <<{}, <<>>>>]

NoDelete == [id |-> Undefined, attempted |-> <<>>, threw |-> FALSE, listUpdated |-> FALSE,
             before |-> <<>>]

\* The stores of a user who analyzed one resume in an earlier session (objects
\* 1 and 2, record 2); the Record Store may also hold a value under a resumeId:
\* key that is no JSON, and holds a key of another kind.
Init ==
    /\ objects = {1, 2}
    /\ kvStore \in
         { << [key |-> <<"theme:", 0>>, value |-> ProseText],
              [key |-> ResumeKey(2), value |-> JSONstringify(Record(2, 1, 2, FeedbackObject))] >>,
           << [key |-> ResumeKey(1), value |-> ProseText],
              [key |-> ResumeKey(2), value |-> JSONstringify(Record(2, 1, 2, FeedbackObject))] >> }
    /\ nextPath = 3
    /\ nextUuid = 3
    /\ isLoading = TRUE
    /\ isAuthenticated = FALSE
    /\ page = NoPage
    /\ variant = "cleanup"
    /\ isProcessing = FALSE
    /\ statusText = ""
    /\ file = "null"
    /\ error = "null"
    /\ formKey = 0
    /\ pc = "idle"
    /\ uploadedFile = Undefined
    /\ uploadedImage = Undefined
    /\ uuid = Undefined
    /\ data = NoData
    /\ submissions = 0
    /\ calls = <<>>
    /\ failedStep = 0
    /\ cleanupThrew = FALSE
    /\ pendingDeletes = {}
    /\ homeResumes = <<>>
    /\ homeIsLoading = FALSE
    /\ homePc = "idle"
    /\ resumes = <<>>
    /\ isDeleting = Undefined
    /\ loadPc = "idle"
    /\ keyStrings = <<>>
    /\ resumeDataStrings = <<>>
    /\ deletes = {}
    /\ gateEvents = {}
    /\ listings = [r \in Routines |-> NoListing]
    /\ lastDelete = NoDelete
    /\ succeeded = {}
    /\ removed = {}

\* a write to a store ends the "unchanged store" every listing relies on
Touched(ls) == [r \in Routines |-> NoListing]

\* gateEvents and lastDelete hold what the step just taken did
NoEvents == gateEvents' = {} /\ lastDelete' = NoDelete

Quiet == NoEvents /\ UNCHANGED <<listings, succeeded, removed>>

-----------------------------------------------------------------------------
(* upload: handleAnalyze with try/catch and compensating deletes             *)
(* (src/app/routes/home.tsx, lines 83-217)                                   *)

\* the calls handleAnalyze awaits in its main sequence
Running == {"upload", "convert", "uploadImage", "kvSetProvisional", "feedback", "kvSetFinal"}

Err(message) == [isError |-> TRUE, message |-> message]

\* what a collaborator's call rejects with: a value that is no Error
Thrown == {[isError |-> FALSE, message |-> ""]}

\* err instanceof Error ? err.message : 'An unknown error occurred.'
ErrorMessage(err) == IF err.isError THEN err.message ELSE "An unknown error occurred."

\* what ai.feedback may resolve to: undefined, a response without message/content,
\* content a string, content a sequence whose first element carries .text, content []
Responses ==
    {[shape |-> s, text |-> EmptyText] : s \in {"undefined", "noMessage", "emptyArray"}}
    \cup {[shape |-> s, text |-> t] : s \in {"string", "array"}, t \in FeedbackTexts}

\* !feedback || !feedback.message || !feedback.message.content
LacksContent(resp) ==
    \/ resp.shape \in {"undefined", "noMessage"}
    \/ resp.shape = "string" /\ ~TruthyText(resp.text)

\* CleanupCalls without its three checks: a delete is pushed for a path or an id
\* the run does not hold
CleanupCallsUnguarded(f, img, id) ==
    <<[op |-> "fs.delete", target |-> f], [op |-> "fs.delete", target |-> img],
      [op |-> "kv.delete", target |-> id]>>

\* CleanupCalls issuing each delete a second time
CleanupCallsRetried(f, img, id) ==
    LET once == (IF f # Undefined THEN <<[op |-> "fs.delete", target |-> f]>> ELSE <<>>)
                \o (IF img # Undefined THEN <<[op |-> "fs.delete", target |-> img]>> ELSE <<>>)
                \o (IF id # Undefined THEN <<[op |-> "kv.delete", target |-> id]>> ELSE <<>>)
    IN once \o once

\* the compensating deletes the catch block pushes, in the order it pushes them
CleanupCalls(f, img, id) ==
    (IF f # Undefined THEN <<[op |-> "fs.delete", target |-> f]>> ELSE <<>>)
    \o (IF img # Undefined THEN <<[op |-> "fs.delete", target |-> img]>> ELSE <<>>)
    \o (IF id # Undefined THEN <<[op |-> "kv.delete", target |-> id]>> ELSE <<>>)

\* the catch block: report the error, then issue the compensating deletes for
\* what the run holds (f, img, id) and await them all
Catch(err, step, f, img, id) ==
    LET cleanup == CleanupCalls(f, img, id) IN
    /\ statusText' = "An error occurred during analysis."
    /\ error' = ErrorMessage(err)
    /\ failedStep' = step
    /\ calls' = calls \o cleanup
    /\ pendingDeletes' = pendingDeletes \cup {cleanup[i] : i \in DOMAIN cleanup}
    /\ pc' = IF cleanup = <<>> THEN "failed" ELSE "cleanup"

Call(op, target) == [op |-> op, target |-> target]

\* handleFileSelect
HandleFileSelect(f) ==
    /\ page.route = "upload"
    /\ variant = "cleanup"
    /\ ~isProcessing
    /\ pendingDeletes = {}
    /\ file' = f
    /\ error' = "null"
    /\ UNCHANGED <<extVars, authVars, page, variant, isProcessing, statusText, formKey,
                   runVars, homeVars, wipeVars>>
    /\ Quiet

\* handleSubmit, and handleAnalyze up to its first await; a behaviour starts
\* at most max submissions
HandleSubmitWithin(max) ==
    /\ page.route = "upload"
    /\ variant = "cleanup"
    /\ ~isProcessing
    /\ pendingDeletes = {}
    /\ IF file = "null"
       THEN /\ error' = "Please select a resume file to upload."
            /\ UNCHANGED <<isProcessing, statusText, runVars>>
       ELSE /\ submissions < max
            /\ submissions' = submissions + 1
            /\ isProcessing' = TRUE
            /\ error' = "null"
            /\ statusText' = "Uploading your resume..."
            /\ uploadedFile' = Undefined
            /\ uploadedImage' = Undefined
            /\ uuid' = Undefined
            /\ data' = NoData
            /\ failedStep' = 0
            /\ cleanupThrew' = FALSE
            /\ calls' = <<Call("fs.upload", "file")>>
            /\ pc' = "upload"
            /\ UNCHANGED pendingDeletes
    /\ UNCHANGED <<extVars, authVars, page, variant, file, formKey, homeVars, wipeVars>>
    /\ Quiet

HandleSubmit == HandleSubmitWithin(MaxSubmissions)

\* uploadedFile = await fs.upload([file])
UploadOriginalSettles ==
    /\ variant = "cleanup"
    /\ pc = "upload"
    /\ \/ /\ uploadedFile' = nextPath
          /\ objects' = objects \cup {nextPath}
          /\ nextPath' = nextPath + 1
          /\ statusText' = "Converting your resume to an image..."
          /\ calls' = Append(calls, Call("convertPdfToImage", "file"))
          /\ pc' = "convert"
          /\ UNCHANGED <<error, failedStep, pendingDeletes>>
       \/ /\ uploadedFile' = Undefined
          /\ Catch(Err("Failed to upload your resume."), 1, Undefined, uploadedImage, uuid)
          /\ UNCHANGED <<objects, nextPath>>
       \/ /\ \E e \in Thrown : Catch(e, 1, uploadedFile, uploadedImage, uuid)
          /\ UNCHANGED <<objects, nextPath, uploadedFile>>
    /\ UNCHANGED <<kvStore, nextUuid, authVars, page, variant, isProcessing, file, formKey,
                   uploadedImage, uuid, data, submissions, cleanupThrew,
                   homeVars, wipeVars>>
    /\ Quiet

\* imageFile = await convertPdfToImage(file)
ConvertSettles ==
    /\ variant = "cleanup"
    /\ pc = "convert"
    /\ \/ /\ statusText' = "Uploading your resume image..."
          /\ calls' = Append(calls, Call("fs.upload", "image"))
          /\ pc' = "uploadImage"
          /\ UNCHANGED <<error, failedStep, pendingDeletes>>
       \/ Catch(Err("Failed to convert your resume to an image."), 2,
                uploadedFile, uploadedImage, uuid)
       \/ \E e \in Thrown : Catch(e, 2, uploadedFile, uploadedImage, uuid)
    /\ UNCHANGED <<extVars, authVars, page, variant, isProcessing, file, formKey,
                   uploadedFile, uploadedImage, uuid, data, submissions, cleanupThrew,
                   homeVars, wipeVars>>
    /\ Quiet

\* uploadedImage = await fs.upload([imageFile.file]); then generateUUID, build
\* the record with feedback '' and issue kv.set
UploadImageSettles ==
    /\ variant = "cleanup"
    /\ pc = "uploadImage"
    /\ \/ /\ uploadedImage' = nextPath
          /\ objects' = objects \cup {nextPath}
          /\ nextPath' = nextPath + 1
          /\ statusText' = "Analyzing your resume..."
          /\ uuid' = nextUuid
          /\ nextUuid' = nextUuid + 1
          /\ data' = Record(nextUuid, uploadedFile, nextPath, EmptyString)
          /\ calls' = Append(calls, Call("kv.set", "provisional"))
          /\ pc' = "kvSetProvisional"
          /\ UNCHANGED <<error, failedStep, pendingDeletes>>
       \/ /\ uploadedImage' = Undefined
          /\ Catch(Err("Failed to upload your resume image."), 3, uploadedFile, Undefined, uuid)
          /\ UNCHANGED <<objects, nextPath, nextUuid, uuid, data>>
       \/ /\ \E e \in Thrown : Catch(e, 3, uploadedFile, uploadedImage, uuid)
          /\ UNCHANGED <<objects, nextPath, nextUuid, uuid, data, uploadedImage>>
    /\ UNCHANGED <<kvStore, authVars, page, variant, isProcessing, file, formKey,
                   uploadedFile, submissions, cleanupThrew, homeVars, wipeVars>>
    /\ Quiet

\* await kv.set(`resumeId:${uuid}`, JSON.stringify(data)), the provisional record
KvSetProvisionalSettles ==
    /\ variant = "cleanup"
    /\ pc = "kvSetProvisional"
    /\ \/ /\ kvStore' = KvSet(kvStore, ResumeKey(uuid), JSONstringify(data))
          /\ listings' = Touched(listings)
          /\ statusText' = "Your resume is being analyzed..."
          /\ calls' = Append(calls, Call("ai.feedback", "file"))
          /\ pc' = "feedback"
          /\ UNCHANGED <<error, failedStep, pendingDeletes>>
       \/ /\ \E e \in Thrown : Catch(e, 4, uploadedFile, uploadedImage, uuid)
          /\ UNCHANGED <<kvStore, listings>>
    /\ UNCHANGED <<objects, nextPath, nextUuid, authVars, page, variant, isProcessing, file,
                   formKey, uploadedFile, uploadedImage, uuid, data, submissions,
                   cleanupThrew, homeVars, wipeVars, succeeded,
                   removed>>
    /\ NoEvents

\* typeof content === 'string' ? content : content[0].text, for a response that
\* has content; content [] has no first element and the read throws
HasFeedbackText(resp) == resp.shape \in {"string", "array"}

\* feedback = await ai.feedback(...); the content check; JSON.parse of the text;
\* then the second kv.set is issued
FeedbackSettles ==
    /\ variant = "cleanup"
    /\ pc = "feedback"
    /\ \/ \E resp \in Responses :
            IF LacksContent(resp)
            THEN /\ Catch(Err("Failed to get analysis feedback."), 5,
                          uploadedFile, uploadedImage, uuid)
                 /\ UNCHANGED data
            ELSE IF ~HasFeedbackText(resp)
            THEN /\ Catch(Err("Cannot read properties of undefined"), 5,
                          uploadedFile, uploadedImage, uuid)
                 /\ UNCHANGED data
            ELSE IF ~Parses(resp.text)
            THEN /\ Catch(Err("Unexpected token"), 6, uploadedFile, uploadedImage, uuid)
                 /\ UNCHANGED data
            ELSE /\ data' = [data EXCEPT !.feedback = JSONparse(resp.text)]
                 /\ calls' = Append(calls, Call("kv.set", "final"))
                 /\ pc' = "kvSetFinal"
                 /\ UNCHANGED <<statusText, error, failedStep, pendingDeletes>>
       \/ /\ \E e \in Thrown : Catch(e, 5, uploadedFile, uploadedImage, uuid)
          /\ UNCHANGED data
    /\ UNCHANGED <<extVars, authVars, page, variant, isProcessing, file, formKey,
                   uploadedFile, uploadedImage, uuid, submissions, cleanupThrew,
                   homeVars, wipeVars>>
    /\ Quiet

ResumePage(id) == [route |-> "resume", next |-> "", id |-> id]

\* await kv.set(`resumeId:${uuid}`, JSON.stringify(data)), the final record;
\* then navigate(`/resume/${uuid}`)
KvSetFinalSettles ==
    /\ variant = "cleanup"
    /\ pc = "kvSetFinal"
    /\ \/ /\ kvStore' = KvSet(kvStore, ResumeKey(uuid), JSONstringify(data))
          /\ listings' = Touched(listings)
          /\ statusText' = "Your resume is analyzed! Redirecting to the results page..."
          /\ page' = ResumePage(uuid)
          /\ succeeded' = succeeded \cup {uuid}
          /\ pc' = "done"
          /\ UNCHANGED <<error, failedStep, calls, pendingDeletes>>
       \/ /\ \E e \in Thrown : Catch(e, 6, uploadedFile, uploadedImage, uuid)
          /\ UNCHANGED <<kvStore, listings, page, succeeded>>
    /\ UNCHANGED <<objects, nextPath, nextUuid, authVars, variant, isProcessing, file,
                   formKey, uploadedFile, uploadedImage, uuid, data, submissions,
                   cleanupThrew, homeVars, wipeVars, removed>>
    /\ NoEvents

\* one of the deletes under Promise.all(cleanupPromises) settles.  The await ends
\* when all have fulfilled, or as soon as one rejects: the rejection then leaves
\* handleAnalyze, while the other deletes go on.
CleanupDeleteSettles(d, ok) ==
    /\ d \in pendingDeletes
    /\ pendingDeletes' = pendingDeletes \ {d}
    /\ IF ok /\ d.op = "fs.delete"
       THEN objects' = objects \ {d.target}
       ELSE UNCHANGED objects
    /\ IF ok /\ d.op = "kv.delete"
       THEN /\ kvStore' = KvDelete(kvStore, ResumeKey(d.target))
            /\ listings' = Touched(listings)
            /\ removed' = removed \cup {d.target}
       ELSE UNCHANGED <<kvStore, listings, removed>>
    /\ IF pc = "cleanup"
       THEN IF ~ok
            THEN pc' = "rejected" /\ cleanupThrew' = TRUE
            ELSE /\ pc' = IF pendingDeletes = {d} THEN "failed" ELSE "cleanup"
                 /\ UNCHANGED cleanupThrew
       ELSE UNCHANGED <<pc, cleanupThrew>>
    /\ UNCHANGED <<nextPath, nextUuid, authVars, page, formVars, uploadedFile, uploadedImage,
                   uuid, data, submissions, calls, failedStep, homeVars, wipeVars, succeeded>>
    /\ NoEvents

\* HandleTryAgain without setFile(null)
HandleTryAgainKeepsFile ==
    /\ page.route = "upload"
    /\ variant = "cleanup"
    /\ isProcessing
    /\ error # "null"
    /\ isProcessing' = FALSE
    /\ error' = "null"
    /\ formKey' = formKey + 1
    /\ UNCHANGED <<extVars, authVars, page, variant, statusText, file, runVars, homeVars,
                   wipeVars>>
    /\ Quiet

\* handleTryAgain: the button is rendered while isProcessing and error are set
HandleTryAgain ==
    /\ page.route = "upload"
    /\ variant = "cleanup"
    /\ isProcessing
    /\ error # "null"
    /\ isProcessing' = FALSE
    /\ error' = "null"
    /\ file' = "null"
    /\ formKey' = formKey + 1
    /\ UNCHANGED <<extVars, authVars, page, variant, statusText, runVars, homeVars,
                   wipeVars>>
    /\ Quiet

-----------------------------------------------------------------------------
(* upload: handleAnalyze that returns early, without try/catch               *)
(* (src/app/routes/home.tsx, lines 288-374)                                  *)

\* return setStatusText('Error: ...'): handleAnalyze ends, nothing else changes
EarlyReturn(message, step) ==
    /\ statusText' = message
    /\ failedStep' = step
    /\ pc' = "failed"

\* an exception leaves handleAnalyze: nothing catches it
EarlyThrow(step) ==
    /\ failedStep' = step
    /\ pc' = "rejected"
    /\ UNCHANGED statusText

\* handleFileSelect
EarlyHandleFileSelect(f) ==
    /\ page.route = "upload"
    /\ variant = "early"
    /\ ~isProcessing
    /\ file' = f
    /\ UNCHANGED <<extVars, authVars, page, variant, isProcessing, statusText, error,
                   formKey, runVars, homeVars, wipeVars>>
    /\ Quiet

\* handleSubmit, and handleAnalyze up to its first await; a behaviour starts
\* at most max submissions
EarlyHandleSubmitWithin(max) ==
    /\ page.route = "upload"
    /\ variant = "early"
    /\ ~isProcessing
    /\ IF file = "null"
       THEN UNCHANGED <<isProcessing, statusText, runVars>>
       ELSE /\ submissions < max
            /\ submissions' = submissions + 1
            /\ isProcessing' = TRUE
            /\ statusText' = "Uploading your resume..."
            /\ uploadedFile' = Undefined
            /\ uploadedImage' = Undefined
            /\ uuid' = Undefined
            /\ data' = NoData
            /\ failedStep' = 0
            /\ cleanupThrew' = FALSE
            /\ calls' = <<Call("fs.upload", "file")>>
            /\ pc' = "upload"
            /\ UNCHANGED pendingDeletes
    /\ UNCHANGED <<extVars, authVars, page, variant, file, error, formKey, homeVars,
                   wipeVars>>
    /\ Quiet

EarlyHandleSubmit == EarlyHandleSubmitWithin(MaxSubmissions)

\* const uploadedFile = await fs.upload([file])
EarlyUploadOriginalSettles ==
    /\ variant = "early"
    /\ pc = "upload"
    /\ \/ /\ uploadedFile' = nextPath
          /\ objects' = objects \cup {nextPath}
          /\ nextPath' = nextPath + 1
          /\ statusText' = "Converting your resume to an image..."
          /\ calls' = Append(calls, Call("convertPdfToImage", "file"))
          /\ pc' = "convert"
          /\ UNCHANGED failedStep
       \/ /\ EarlyReturn("Error: Failed to upload your resume", 1)
          /\ UNCHANGED <<objects, nextPath, uploadedFile, calls>>
       \/ /\ EarlyThrow(1)
          /\ UNCHANGED <<objects, nextPath, uploadedFile, calls>>
    /\ UNCHANGED <<kvStore, nextUuid, authVars, page, variant, isProcessing, file, error,
                   formKey, uploadedImage, uuid, data, submissions, cleanupThrew,
                   pendingDeletes, homeVars, wipeVars>>
    /\ Quiet

\* const imageFile = await convertPdfToImage(file)
EarlyConvertSettles ==
    /\ variant = "early"
    /\ pc = "convert"
    /\ \/ /\ statusText' = "Uploading your resume to the cloud..."
          /\ calls' = Append(calls, Call("fs.upload", "image"))
          /\ pc' = "uploadImage"
          /\ UNCHANGED failedStep
       \/ /\ EarlyReturn("Error: Failed to convert your resume to an image", 2)
          /\ UNCHANGED calls
       \/ /\ EarlyThrow(2)
          /\ UNCHANGED calls
    /\ UNCHANGED <<extVars, authVars, page, variant, isProcessing, file, error, formKey,
                   uploadedFile, uploadedImage, uuid, data, submissions, cleanupThrew,
                   pendingDeletes, homeVars, wipeVars>>
    /\ Quiet

\* const uploadedImage = await fs.upload([imageFile.file]); then generateUUID,
\* build the record with feedback '' and issue kv.set
EarlyUploadImageSettles ==
    /\ variant = "early"
    /\ pc = "uploadImage"
    /\ \/ /\ uploadedImage' = nextPath
          /\ objects' = objects \cup {nextPath}
          /\ nextPath' = nextPath + 1
          /\ statusText' = "Analyzing your resume..."
          /\ uuid' = nextUuid
          /\ nextUuid' = nextUuid + 1
          /\ data' = Record(nextUuid, uploadedFile, nextPath, EmptyString)
          /\ calls' = Append(calls, Call("kv.set", "provisional"))
          /\ pc' = "kvSetProvisional"
          /\ UNCHANGED failedStep
       \/ /\ EarlyReturn("Error: Failed to upload your resume image", 3)
          /\ UNCHANGED <<objects, nextPath, nextUuid, uploadedImage, uuid, data, calls>>
       \/ /\ EarlyThrow(3)
          /\ UNCHANGED <<objects, nextPath, nextUuid, uploadedImage, uuid, data, calls>>
    /\ UNCHANGED <<kvStore, authVars, page, variant, isProcessing, file, error, formKey,
                   uploadedFile, submissions, cleanupThrew, pendingDeletes,
                   homeVars, wipeVars>>
    /\ Quiet

\* await kv.set(`resumeId:${uuid}`, JSON.stringify(data)), the provisional record
EarlyKvSetProvisionalSettles ==
    /\ variant = "early"
    /\ pc = "kvSetProvisional"
    /\ \/ /\ kvStore' = KvSet(kvStore, ResumeKey(uuid), JSONstringify(data))
          /\ listings' = Touched(listings)
          /\ statusText' = "Your resume is being analyzed..."
          /\ calls' = Append(calls, Call("ai.feedback", "file"))
          /\ pc' = "feedback"
          /\ UNCHANGED failedStep
       \/ /\ EarlyThrow(4)
          /\ UNCHANGED <<kvStore, listings, calls>>
    /\ UNCHANGED <<objects, nextPath, nextUuid, authVars, page, variant, isProcessing, file,
                   error, formKey, uploadedFile, uploadedImage, uuid, data, submissions,
                   cleanupThrew, pendingDeletes, homeVars, wipeVars,
                   succeeded, removed>>
    /\ NoEvents

\* const feedback = await ai.feedback(...); if (!feedback) return ...; the text is
\* read from feedback.message.content without a check, then JSON.parse
EarlyFeedbackSettles ==
    /\ variant = "early"
    /\ pc = "feedback"
    /\ \/ \E resp \in Responses :
            IF resp.shape = "undefined"
            THEN /\ EarlyReturn("Error: Failed to analyze your resume", 5)
                 /\ UNCHANGED <<data, calls>>
            ELSE IF ~HasFeedbackText(resp)
            THEN /\ EarlyThrow(5)
                 /\ UNCHANGED <<data, calls>>
            ELSE IF ~Parses(resp.text)
            THEN /\ EarlyThrow(6)
                 /\ UNCHANGED <<data, calls>>
            ELSE /\ data' = [data EXCEPT !.feedback = JSONparse(resp.text)]
                 /\ calls' = Append(calls, Call("kv.set", "final"))
                 /\ pc' = "kvSetFinal"
                 /\ UNCHANGED <<statusText, failedStep>>
       \/ /\ EarlyThrow(5)
          /\ UNCHANGED <<data, calls>>
    /\ UNCHANGED <<extVars, authVars, page, variant, isProcessing, file, error, formKey,
                   uploadedFile, uploadedImage, uuid, submissions, cleanupThrew,
                   pendingDeletes, homeVars, wipeVars>>
    /\ Quiet

\* await kv.set(`resumeId:${uuid}`, JSON.stringify(data)), the final record;
\* then navigate(`/resume/${uuid}`)
EarlyKvSetFinalSettles ==
    /\ variant = "early"
    /\ pc = "kvSetFinal"
    /\ \/ /\ kvStore' = KvSet(kvStore, ResumeKey(uuid), JSONstringify(data))
          /\ listings' = Touched(listings)
          /\ statusText' = "Your resume is analyzed! Redirecting to the results page..."
          /\ page' = ResumePage(uuid)
          /\ succeeded' = succeeded \cup {uuid}
          /\ pc' = "done"
          /\ UNCHANGED failedStep
       \/ /\ EarlyThrow(6)
          /\ UNCHANGED <<kvStore, listings, page, succeeded>>
    /\ UNCHANGED <<objects, nextPath, nextUuid, authVars, variant, isProcessing, file, error,
                   formKey, uploadedFile, uploadedImage, uuid, data, submissions, calls,
                   cleanupThrew, pendingDeletes, homeVars, wipeVars,
                   removed>>
    /\ NoEvents

-----------------------------------------------------------------------------
(* Listing: what a completed listing records.  A listing is "clean" while no   *)
(* handler has written to a store since it began; stores is what the stores    *)
(* held when it began.                                                         *)

ListingBegins(ls, r) == [ls EXCEPT ![r].clean = TRUE, ![r].stores = <<objects, kvStore>>]

\* count: how many listings (capped at two) have completed since the last
\* write; result and prev: what the last one and the one before it returned
ListingCompletes(ls, r, result) ==
    [ls EXCEPT ![r] =
        IF ls[r].clean
        THEN [clean |-> FALSE, count |-> IF ls[r].count = 0 THEN 1 ELSE 2,
              result |-> result, prev |-> ls[r].result, stores |-> ls[r].stores]
        ELSE NoListing]

GateEvent(comp, ev, ready, authed) ==
    [comp |-> comp, ev |-> ev, ready |-> ready, authed |-> authed]

AuthPage(next) == [route |-> "auth", next |-> next, id |-> Undefined]
HomePage == [route |-> "home", next |-> "", id |-> Undefined]
WipePage == [route |-> "wipe", next |-> "", id |-> Undefined]
UploadPage == [route |-> "upload", next |-> "", id |-> Undefined]

-----------------------------------------------------------------------------
(* Home (src/app/routes/home.tsx, lines 12-33) *)

\* useState initial values of Home
ResetHome ==
    /\ homeResumes' = <<>>
    /\ homeIsLoading' = FALSE
    /\ homePc' = "idle"

\* The two effects Home runs when it mounts, the identity provider being ready
\* or not and the session authed or not: the first navigates to /auth?next=/
\* when the session is not authenticated; the second calls loadResumes, which
\* sets isLoading and issues kv.list('resumeId:*', true).
HomeEffects(ready, authed) ==
    /\ gateEvents' = {GateEvent("Home", "load", ready, authed)}
                     \cup (IF ~authed THEN {GateEvent("Home", "redirect", ready, authed)}
                           ELSE {})
    /\ page' = IF ~authed THEN AuthPage("/") ELSE HomePage
    /\ homeResumes' = <<>>
    /\ homeIsLoading' = authed
    /\ homePc' = IF authed THEN "list" ELSE "idle"
    /\ listings' = IF authed THEN ListingBegins(listings, "Home") ELSE listings

\* resumes?.map((resume) => JSON.parse(resume.value))
ParseAll(items) == [i \in DOMAIN items |-> JSONparse(items[i].value)]

\* loadResumes after its await: kv.list resolves to undefined or to the items;
\* JSON.parse of an item's value may throw, and nothing catches it
HomeListSettles ==
    /\ page.route = "home"
    /\ homePc = "list"
    /\ \/ /\ homeResumes' = <<>>
          /\ homeIsLoading' = FALSE
          /\ homePc' = "idle"
          /\ UNCHANGED listings
       \/ LET items == KvList(kvStore) IN
          IF \E i \in DOMAIN items : ~Parses(items[i].value)
          THEN /\ homePc' = "raised"
               /\ UNCHANGED <<homeResumes, homeIsLoading, listings>>
          ELSE /\ homeResumes' = ParseAll(items)
               /\ homeIsLoading' = FALSE
               /\ homePc' = "idle"
               /\ listings' = ListingCompletes(listings, "Home", ParseAll(items))
    /\ UNCHANGED <<extVars, authVars, page, formVars, runVars, wipeVars, succeeded, removed>>
    /\ NoEvents

-----------------------------------------------------------------------------
(* WipeApp (src/unnamed/part_000) *)

PendingText == [kind |-> "pending", val |-> NullValue]

\* useState initial values of WipeApp
ResetWipe ==
    /\ resumes' = <<>>
    /\ isDeleting' = Undefined
    /\ loadPc' = "idle"
    /\ keyStrings' = <<>>
    /\ resumeDataStrings' = <<>>
    /\ deletes' = {}

\* The two effects of WipeApp, run at mount and when isLoading or
\* auth.isAuthenticated changes: loadResumes when ready and authenticated,
\* navigate('/auth?next=/wipe') when ready and not authenticated.
WipeEffects(ready, authed) ==
    /\ gateEvents' = IF ready /\ authed THEN {GateEvent("WipeApp", "load", ready, authed)}
                     ELSE IF ready /\ ~authed
                          THEN {GateEvent("WipeApp", "redirect", ready, authed)}
                          ELSE {}
    /\ page' = IF ready /\ ~authed THEN AuthPage("/wipe") ELSE WipePage
    /\ loadPc' = IF ready /\ authed THEN "list" ELSE "idle"
    /\ listings' = IF ready /\ authed THEN ListingBegins(listings, "WipeApp") ELSE listings
    /\ resumes' = <<>>
    /\ isDeleting' = Undefined
    /\ keyStrings' = <<>>
    /\ resumeDataStrings' = <<>>
    /\ deletes' = {}

\* loadResumes: keys = await kv.list('resumeId:*'); if (!keys) return; then
\* kv.get is issued for every key
WipeListSettles ==
    /\ page.route = "wipe"
    /\ loadPc = "list"
    /\ \/ /\ loadPc' = "idle"
          /\ UNCHANGED <<keyStrings, resumeDataStrings>>
       \/ LET keys == KvList(kvStore) IN
          /\ keyStrings' = [i \in DOMAIN keys |-> keys[i].key]
          /\ resumeDataStrings' = [i \in DOMAIN keys |-> PendingText]
          /\ loadPc' = "gets"
    /\ UNCHANGED <<extVars, authVars, page, formVars, runVars, homeVars, resumes,
                   isDeleting, deletes>>
    /\ Quiet

\* PromiseAllPlace keeping the results in the order in which the promises settle
PromiseAllArrival(results, i, value) ==
    LET k == CHOOSE k \in DOMAIN results :
                 /\ results[k] = PendingText
                 /\ \A m \in DOMAIN results : m < k => results[m] # PendingText
    IN [results EXCEPT ![k] = value]

\* Promise.all keeps each result at the index of its promise, whatever the
\* order in which the promises settle
PromiseAllPlace(results, i, value) == [results EXCEPT ![i] = value]

\* one kv.get(key) under Promise.all(resumePromises) settles
WipeGetSettles(i) ==
    /\ page.route = "wipe"
    /\ loadPc = "gets"
    /\ i \in DOMAIN resumeDataStrings
    /\ resumeDataStrings[i] = PendingText
    /\ resumeDataStrings' =
          PromiseAllPlace(resumeDataStrings, i, KvGet(kvStore, keyStrings[i]))
    /\ UNCHANGED <<extVars, authVars, page, formVars, runVars, homeVars, resumes,
                   isDeleting, loadPc, keyStrings, deletes>>
    /\ Quiet

\* .map((s) => { if (s) { try { return JSON.parse(s) } catch { return null } }
\*               return null })
ParseOrNull(s) == IF TruthyText(s) /\ Parses(s) THEN JSONparse(s) ELSE NullValue

\* .filter(Boolean)
FilterBoolean(values) == SelectSeq(values, LAMBDA x : Truthy(x))

\* loadResumes after await Promise.all: parse, filter, setResumes
WipeLoadFinish ==
    /\ page.route = "wipe"
    /\ loadPc = "gets"
    /\ \A i \in DOMAIN resumeDataStrings : resumeDataStrings[i] # PendingText
    /\ LET resumesData ==
             FilterBoolean([i \in DOMAIN resumeDataStrings |->
                               ParseOrNull(resumeDataStrings[i])])
       IN /\ resumes' = resumesData
          /\ listings' = ListingCompletes(listings, "WipeApp", resumesData)
    /\ loadPc' = "idle"
    /\ UNCHANGED <<extVars, authVars, page, formVars, runVars, homeVars, isDeleting,
                   keyStrings, resumeDataStrings, deletes,
                   succeeded, removed>>
    /\ NoEvents

Range(seq) == {seq[i] : i \in DOMAIN seq}

\* resumes.filter((r) => r.id !== resume.id)
WithoutResume(list, id) == SelectSeq(list, LAMBDA r : r.id # id)

\* DeleteThrew removing the record from the list all the same
DeleteThrewOptimistic(d) ==
    /\ deletes' = deletes \ {d}
    /\ isDeleting' = Undefined
    /\ lastDelete' = [id |-> d.resume.id, attempted |-> d.attempted, threw |-> TRUE,
                      listUpdated |-> TRUE, before |-> resumes]
    /\ resumes' = WithoutResume(resumes, d.resume.id)

\* the catch and finally blocks of handleDelete: the error is logged, isDeleting
\* is reset, nothing else is done
DeleteThrew(d) ==
    /\ deletes' = deletes \ {d}
    /\ isDeleting' = Undefined
    /\ lastDelete' = [id |-> d.resume.id, attempted |-> d.attempted, threw |-> TRUE,
                      listUpdated |-> FALSE, before |-> resumes]
    /\ UNCHANGED resumes

\* handleDelete(resume) up to its first await: the Delete button of a listed
\* record is enabled unless isDeleting is that record's id.  One handleDelete per
\* record runs at a time.
HandleDelete(resume) ==
    /\ page.route = "wipe"
    /\ resume \in Range(resumes)
    /\ isDeleting # resume.id
    /\ \A d \in deletes : d.resume.id # resume.id
    /\ isDeleting' = resume.id
    /\ deletes' = deletes \cup
          {[resume |-> resume, captured |-> resumes, pc |-> "resumePath",
            attempted |-> <<"fs.delete(resumePath)">>]}
    /\ UNCHANGED <<extVars, authVars, page, formVars, runVars, homeVars, resumes, loadPc,
                   keyStrings, resumeDataStrings>>
    /\ Quiet

\* await fs.delete(resume.resumePath)
DeleteResumeSettles(d, ok) ==
    /\ d \in deletes
    /\ d.pc = "resumePath"
    /\ IF ok
       THEN /\ objects' = objects \ {d.resume.resumePath}
            /\ deletes' = (deletes \ {d}) \cup
                  {[d EXCEPT !.pc = "imagePath",
                             !.attempted = Append(@, "fs.delete(imagePath)")]}
            /\ listings' = Touched(listings)
            /\ lastDelete' = NoDelete
            /\ UNCHANGED <<isDeleting, resumes>>
       ELSE /\ DeleteThrew(d)
            /\ UNCHANGED <<objects, listings>>
    /\ gateEvents' = {}
    /\ UNCHANGED <<kvStore, nextPath, nextUuid, authVars, page, formVars, runVars, homeVars,
                   loadPc, keyStrings, resumeDataStrings, succeeded, removed>>

\* await fs.delete(resume.imagePath)
DeleteImageSettles(d, ok) ==
    /\ d \in deletes
    /\ d.pc = "imagePath"
    /\ IF ok
       THEN /\ objects' = objects \ {d.resume.imagePath}
            /\ deletes' = (deletes \ {d}) \cup
                  {[d EXCEPT !.pc = "kv", !.attempted = Append(@, "kv.delete")]}
            /\ listings' = Touched(listings)
            /\ lastDelete' = NoDelete
            /\ UNCHANGED <<isDeleting, resumes>>
       ELSE /\ DeleteThrew(d)
            /\ UNCHANGED <<objects, listings>>
    /\ gateEvents' = {}
    /\ UNCHANGED <<kvStore, nextPath, nextUuid, authVars, page, formVars, runVars, homeVars,
                   loadPc, keyStrings, resumeDataStrings, succeeded, removed>>

\* await kv.delete(`resumeId:${resume.id}`); setResumes(resumes.filter(...)) with
\* the list handleDelete was created with; finally setIsDeleting(null)
DeleteKvSettles(d, ok) ==
    /\ d \in deletes
    /\ d.pc = "kv"
    /\ IF ok
       THEN /\ kvStore' = KvDelete(kvStore, ResumeKey(d.resume.id))
            /\ listings' = Touched(listings)
            /\ removed' = removed \cup {d.resume.id}
            /\ resumes' = WithoutResume(d.captured, d.resume.id)
            /\ deletes' = deletes \ {d}
            /\ isDeleting' = Undefined
            /\ lastDelete' = [id |-> d.resume.id, attempted |-> d.attempted,
                              threw |-> FALSE, listUpdated |-> TRUE, before |-> resumes]
       ELSE /\ DeleteThrew(d)
            /\ UNCHANGED <<kvStore, listings, removed>>
    /\ gateEvents' = {}
    /\ UNCHANGED <<objects, nextPath, nextUuid, authVars, page, formVars, runVars, homeVars,
                   loadPc, keyStrings, resumeDataStrings, succeeded>>

-----------------------------------------------------------------------------
(* Routes: the user opens a page; the page that was mounted loses its state.   *)
(* A page is left only while none of its handlers is awaiting a call that      *)
(* writes (handleAnalyze's main sequence, its compensating deletes,            *)
(* handleDelete).                                                              *)

CanLeave == pc \notin Running /\ deletes = {} /\ pendingDeletes = {}

\* useState initial values of upload; a handleAnalyze that was still awaiting
\* its compensating deletes is no longer observed, the deletes go on
ResetUpload(v) ==
    /\ variant' = v
    /\ isProcessing' = FALSE
    /\ statusText' = ""
    /\ file' = "null"
    /\ error' = "null"
    /\ formKey' = 0
    /\ pc' = "idle"
    /\ uploadedFile' = Undefined
    /\ uploadedImage' = Undefined
    /\ uuid' = Undefined
    /\ data' = NoData
    /\ calls' = <<>>
    /\ failedStep' = 0
    /\ cleanupThrew' = FALSE
    /\ UNCHANGED <<submissions, pendingDeletes>>

\* Home mounts
VisitHome ==
    /\ CanLeave
    /\ ResetUpload(variant)
    /\ ResetWipe
    /\ HomeEffects(~isLoading, isAuthenticated)
    /\ lastDelete' = NoDelete
    /\ UNCHANGED <<extVars, authVars, succeeded, removed>>

\* WipeApp mounts
VisitWipe ==
    /\ CanLeave
    /\ ResetUpload(variant)
    /\ ResetHome
    /\ WipeEffects(~isLoading, isAuthenticated)
    /\ lastDelete' = NoDelete
    /\ UNCHANGED <<extVars, authVars, succeeded, removed>>

\* upload mounts, in one of its two variants; what the listings returned is
\* forgotten, the page being there to write to the stores
VisitUpload(v) ==
    /\ CanLeave
    /\ ~isLoading
    /\ isAuthenticated
    /\ submissions < MaxSubmissions
    /\ ResetUpload(v)
    /\ ResetHome
    /\ ResetWipe
    /\ page' = UploadPage
    /\ NoEvents
    /\ listings' = Touched(listings)
    /\ UNCHANGED <<extVars, authVars, succeeded, removed>>

\* the page /auth?next=... sends an authenticated session to next
MountNext(next, ready, authed) ==
    IF next = "/wipe"
    THEN WipeEffects(ready, authed) /\ ResetHome
    ELSE HomeEffects(ready, authed) /\ ResetWipe

\* The identity provider reports readiness, with an authenticated session or
\* not.  WipeApp's effects depend on it and run again; /auth forwards an
\* authenticated session.
AuthReady(authed) ==
    /\ isLoading
    /\ isLoading' = FALSE
    /\ isAuthenticated' = authed
    /\ IF page.route = "wipe"
       THEN WipeEffects(TRUE, authed) /\ UNCHANGED homeVars
       ELSE IF page.route = "auth" /\ authed
       THEN MountNext(page.next, TRUE, TRUE)
       ELSE gateEvents' = {} /\ UNCHANGED <<page, homeVars, wipeVars, listings>>
    /\ lastDelete' = NoDelete
    /\ UNCHANGED <<extVars, formVars, runVars, succeeded, removed>>

\* the user signs in on /auth and is sent to next
SignIn ==
    /\ page.route = "auth"
    /\ ~isLoading
    /\ ~isAuthenticated
    /\ isAuthenticated' = TRUE
    /\ MountNext(page.next, TRUE, TRUE)
    /\ lastDelete' = NoDelete
    /\ UNCHANGED <<extVars, isLoading, formVars, runVars, succeeded, removed>>

-----------------------------------------------------------------------------

Files == {"null", "resume.pdf"}

Next ==
    \/ VisitHome
    \/ VisitWipe
    \/ \E v \in {"cleanup", "early"} : VisitUpload(v)
    \/ \E authed \in BOOLEAN : AuthReady(authed)
    \/ SignIn
    \/ \E f \in Files : HandleFileSelect(f)
    \/ HandleSubmit
    \/ UploadOriginalSettles
    \/ ConvertSettles
    \/ UploadImageSettles
    \/ KvSetProvisionalSettles
    \/ FeedbackSettles
    \/ KvSetFinalSettles
    \/ \E d \in pendingDeletes, ok \in BOOLEAN : CleanupDeleteSettles(d, ok)
    \/ HandleTryAgain
    \/ \E f \in Files : EarlyHandleFileSelect(f)
    \/ EarlyHandleSubmit
    \/ EarlyUploadOriginalSettles
    \/ EarlyConvertSettles
    \/ EarlyUploadImageSettles
    \/ EarlyKvSetProvisionalSettles
    \/ EarlyFeedbackSettles
    \/ EarlyKvSetFinalSettles
    \/ HomeListSettles
    \/ WipeListSettles
    \/ \E i \in DOMAIN resumeDataStrings : WipeGetSettles(i)
    \/ WipeLoadFinish
    \/ \E resume \in Range(resumes) : HandleDelete(resume)
    \/ \E d \in deletes, ok \in BOOLEAN : DeleteResumeSettles(d, ok)
    \/ \E d \in deletes, ok \in BOOLEAN : DeleteImageSettles(d, ok)
    \/ \E d \in deletes, ok \in BOOLEAN : DeleteKvSettles(d, ok)

Spec == Init /\ [][Next]_vars

-----------------------------------------------------------------------------
(* The upload page alone: a ready, authenticated session has opened it, in one *)
(* of its two variants, and stays on it; several submissions may be started.   *)

\* the state VisitUpload(v) leaves when it follows AuthReady(TRUE)
UploadInit ==
    /\ objects = {1, 2}
    /\ kvStore = << [key |-> <<"theme:", 0>>, value |-> ProseText],
                    [key |-> ResumeKey(2),
                     value |-> JSONstringify(Record(2, 1, 2, FeedbackObject))] >>
    /\ nextPath = 3
    /\ nextUuid = 3
    /\ isLoading = FALSE
    /\ isAuthenticated = TRUE
    /\ page = UploadPage
    /\ variant \in {"cleanup", "early"}
    /\ isProcessing = FALSE
    /\ statusText = ""
    /\ file = "null"
    /\ error = "null"
    /\ formKey = 0
    /\ pc = "idle"
    /\ uploadedFile = Undefined
    /\ uploadedImage = Undefined
    /\ uuid = Undefined
    /\ data = NoData
    /\ submissions = 0
    /\ calls = <<>>
    /\ failedStep = 0
    /\ cleanupThrew = FALSE
    /\ pendingDeletes = {}
    /\ homeResumes = <<>>
    /\ homeIsLoading = FALSE
    /\ homePc = "idle"
    /\ resumes = <<>>
    /\ isDeleting = Undefined
    /\ loadPc = "idle"
    /\ keyStrings = <<>>
    /\ resumeDataStrings = <<>>
    /\ deletes = {}
    /\ gateEvents = {}
    /\ listings = [r \in Routines |-> NoListing]
    /\ lastDelete = NoDelete
    /\ succeeded = {}
    /\ removed = {}

\* an external call of handleAnalyze returns or throws
UploadSettles ==
    \/ UploadOriginalSettles
    \/ ConvertSettles
    \/ UploadImageSettles
    \/ KvSetProvisionalSettles
    \/ FeedbackSettles
    \/ KvSetFinalSettles
    \/ \E d \in pendingDeletes, ok \in BOOLEAN : CleanupDeleteSettles(d, ok)
    \/ EarlyUploadOriginalSettles
    \/ EarlyConvertSettles
    \/ EarlyUploadImageSettles
    \/ EarlyKvSetProvisionalSettles
    \/ EarlyFeedbackSettles
    \/ EarlyKvSetFinalSettles

UploadNext ==
    \/ \E f \in Files : HandleFileSelect(f)
    \/ HandleSubmitWithin(MaxAttempts)
    \/ HandleTryAgain
    \/ \E f \in Files : EarlyHandleFileSelect(f)
    \/ EarlyHandleSubmitWithin(MaxAttempts)
    \/ UploadSettles

UploadSpec == UploadInit /\ [][UploadNext]_vars

\* every external call eventually returns or throws
FairUploadSpec == UploadSpec /\ WF_vars(UploadSettles)

-----------------------------------------------------------------------------
(* Properties *)

\* handleAnalyze is over, having failed
Failed == pc \in {"failed", "rejected"}

\* the records a listing is to return: the parsed values of the resumeId:
\* entries that parse, in the store's order
ParsedRecords(store) ==
    LET good == SelectSeq(KvList(store), LAMBDA e : Parses(e.value))
    IN [i \in DOMAIN good |-> JSONparse(good[i].value)]

\* C1: once a submission that failed at a step 1..6 is over, and no compensating
\* delete threw, the Object Store holds neither the original nor the image the
\* submission uploaded and the Record Store holds no entry under its id
C1_CleanupComplete ==
    (Failed /\ failedStep \in 1..6 /\ ~cleanupThrew /\ pendingDeletes = {})
        => /\ uploadedFile \notin objects
           /\ uploadedImage \notin objects
           /\ uuid # Undefined => ~HasKey(kvStore, ResumeKey(uuid))

\* the statement of C1 for the variant with try/catch alone
CleanupVariantCleansUp == variant = "cleanup" => C1_CleanupComplete

\* C2: when a submission has reached navigate(`/resume/${uuid}`), the record
\* under resumeId:<uuid> has a resumePath, an imagePath and a feedback that is
\* the parsed feedback text and is not the empty string
C2_FinalRecord ==
    pc = "done"
        => /\ HasKey(kvStore, ResumeKey(uuid))
           /\ Parses(KvGet(kvStore, ResumeKey(uuid)))
           /\ LET rec == JSONparse(KvGet(kvStore, ResumeKey(uuid)))
              IN /\ rec.resumePath # Undefined
                 /\ rec.imagePath # Undefined
                 /\ rec.feedback = data.feedback
                 /\ rec.feedback # EmptyString

\* the kv.delete of the handleDelete that just finished threw
KvDeleteThrew == lastDelete.threw /\ Len(lastDelete.attempted) = 3

\* C3: when handleDelete has finished, the record's entry is gone from the
\* Record Store, whether or not the two Object Store deletes succeeded
\* (unless the kv.delete itself threw)
C3_DeleteRemovesEntry ==
    (lastDelete.id # Undefined /\ ~KvDeleteThrew)
        => ~HasKey(kvStore, ResumeKey(lastDelete.id))

\* C4: a handleDelete that has finished has attempted all three deletes, and has
\* removed the record from the in-memory list, whatever the outcomes
C4_DeletesIndependent ==
    lastDelete.id # Undefined
        => /\ lastDelete.attempted = <<"fs.delete(resumePath)", "fs.delete(imagePath)", "kv.delete">>
           /\ lastDelete.listUpdated

\* C5: in every state, every record in the Record Store has a resumePath and an
\* imagePath that are objects of the Object Store
C5_PathsExist ==
    \A i \in DOMAIN ParsedRecords(kvStore) :
        /\ ParsedRecords(kvStore)[i].resumePath \in objects
        /\ ParsedRecords(kvStore)[i].imagePath \in objects

\* C6: no listing raises because of a stored value, and a listing that has
\* completed on the unchanged store returned the records whose values parse
C6_ListingSkipsUnparseable ==
    /\ homePc # "raised"
    /\ \A r \in Routines :
          listings[r].count > 0 => listings[r].result = ParsedRecords(kvStore)

\* C7: a page's effects redirect or load user data only once the identity
\* provider is ready; they redirect (to /auth with a next= path) only a session
\* that is not authenticated, and load only for one that is
C7_SessionGate ==
    \A e \in gateEvents :
        /\ e.ready
        /\ e.ev = "redirect" => (~e.authed /\ page.route = "auth" /\ page.next # "")
        /\ e.ev = "load" => e.authed

\* C8: a listing completed after a submission succeeded, whose entry no delete
\* has removed, holds a record with the submission's id whose feedback is the
\* parsed object, not the empty string
C8_ListedAfterSuccess ==
    \A r \in Routines :
        listings[r].count > 0
            => \A id \in succeeded \ removed :
                  \E i \in DOMAIN listings[r].result :
                      /\ listings[r].result[i].id = id
                      /\ listings[r].result[i].feedback = FeedbackObject

\* C9: two consecutive listings with no write between them return the same
\* sequence of records, in the order in which the store returns the keys, and
\* the listings have changed neither store
C9_ListingStable ==
    \A r \in Routines :
        listings[r].count > 0 =>
            /\ listings[r].stores = <<objects, kvStore>>
            /\ \A i, j \in DOMAIN listings[r].result :
                  LET keys == KvList(kvStore)
                      pos(id) == CHOOSE k \in DOMAIN keys : keys[k].key = ResumeKey(id)
                  IN i < j => pos(listings[r].result[i].id) < pos(listings[r].result[j].id)
            /\ listings[r].count = 2 => listings[r].result = listings[r].prev

\* both routines have listed twice, with no write in between, a store of two
\* records
C9_Witness ==
    \A r \in Routines : listings[r].count = 2 /\ Len(listings[r].result) >= 2

MainSequence ==
    <<Call("fs.upload", "file"), Call("convertPdfToImage", "file"),
      Call("fs.upload", "image"), Call("kv.set", "provisional"),
      Call("ai.feedback", "file"), Call("kv.set", "final")>>

IsDelete(c) == c.op \in {"fs.delete", "kv.delete"}

\* the calls of the main sequence the run has issued
MainCalls == SelectSeq(calls, LAMBDA c : ~IsDelete(c))

\* C10: the calls of a submission are issued in the order upload original,
\* convert, upload image, provisional kv.set, ai.feedback, final kv.set; a call
\* is issued only when the steps before it succeeded; when the original upload
\* fails, nothing else is called, no compensating delete either
C10_CallOrder ==
    /\ Len(MainCalls) <= 6
    /\ MainCalls = SubSeq(MainSequence, 1, Len(MainCalls))
    /\ \A i, j \in DOMAIN calls : (IsDelete(calls[i]) /\ i < j) => IsDelete(calls[j])
    /\ Len(MainCalls) >= 2 => uploadedFile # Undefined
    /\ Len(MainCalls) >= 4 => (uploadedImage # Undefined /\ uuid # Undefined)
    /\ failedStep # 0 => pc \notin Running
    /\ failedStep \in 1..5 => Len(MainCalls) = failedStep
    /\ failedStep = 6 => Len(MainCalls) \in {5, 6}
    /\ failedStep = 1 => calls = <<Call("fs.upload", "file")>>

\* a submission of the variant with try/catch is over, its original upload
\* having failed
C10_Witness == variant = "cleanup" /\ pc = "failed" /\ failedStep = 1

\* the provisional record of the running submission is in the Record Store
ProvisionalPresent ==
    /\ uuid # Undefined
    /\ HasKey(kvStore, ResumeKey(uuid))
    /\ Parses(KvGet(kvStore, ResumeKey(uuid)))
    /\ JSONparse(KvGet(kvStore, ResumeKey(uuid))).feedback = EmptyString

\* C11: from the moment handleAnalyze has begun the upload of the original, and
\* until the final kv.set overwrites it or a delete removes it, the Record Store
\* holds under resumeId:<id> a record whose feedback is empty
C11_ProvisionalFromUpload == pc \in Running => ProvisionalPresent

\* what the code does provide of C11: the provisional record is there from the
\* moment its kv.set has resolved
ProvisionalFromKvSet == pc \in {"feedback", "kvSetFinal"} => ProvisionalPresent

\* C12: the error of a failed submission is shown (error set, Try Again
\* rendered) only once all the compensating deletes have settled
C12_ErrorAfterCleanup ==
    (variant = "cleanup" /\ failedStep # 0 /\ error # "null") => pendingDeletes = {}

\* C13: a compensating delete that throws does not leave handleAnalyze as an
\* exception, and the message of the step that failed stays shown
C13_CleanupFailureSilent ==
    cleanupThrew => /\ pc # "rejected"
                    /\ isProcessing => error # "null"

\* what the code does provide of C13: while the failure is shown, the message
\* is the one the catch block built for the step that failed
OriginalErrorKept ==
    (variant = "cleanup" /\ failedStep # 0 /\ isProcessing)
        => error \in {"Failed to upload your resume.",
                      "Failed to convert your resume to an image.",
                      "Failed to upload your resume image.",
                      "Failed to get analysis feedback.",
                      "Cannot read properties of undefined", "Unexpected token",
                      "An unknown error occurred."}

NoDuplicates(seq) == \A i, j \in DOMAIN seq : seq[i] = seq[j] => i = j

\* the three deletes of handleDelete, in the order of its awaits
DeleteSequence == <<"fs.delete(resumePath)", "fs.delete(imagePath)", "kv.delete">>

\* C14: a submission issues no external call twice, its compensating deletes
\* included, and a handleDelete issues each of its three deletes at most once
C14_NoRetry ==
    /\ NoDuplicates(calls)
    /\ Len(MainCalls) <= 6
    /\ \A d \in deletes : d.attempted = SubSeq(DeleteSequence, 1, Len(d.attempted))
    /\ lastDelete.attempted = SubSeq(DeleteSequence, 1, Len(lastDelete.attempted))

\* a submission whose final kv.set threw is over: six calls of the main sequence
\* and the three compensating deletes
C14_Witness ==
    variant = "cleanup" /\ pc = "failed" /\ failedStep = 6 /\ Len(calls) = 9

\* the Try Again button is rendered
TryAgainOffered == variant = "cleanup" /\ isProcessing /\ error # "null"

\* one step of the upload page, as C15 constrains it
C15_RetryStep ==
    \* Try Again is offered only once a step of the run has failed
    /\ TryAgainOffered' => failedStep' # 0
    \* handleTryAgain, the step that changes formKey, clears file, error and isProcessing
    /\ formKey' # formKey =>
          (TryAgainOffered /\ file' = "null" /\ error' = "null" /\ ~isProcessing')
    \* with no file selected no call is issued
    /\ file = "null" => calls' = calls
    \* a run starts with a selected file, at the original upload, holding no
    \* path and no id
    /\ submissions' # submissions =>
          /\ file # "null"
          /\ pc' = "upload"
          /\ calls' = <<Call("fs.upload", "file")>>
          /\ uploadedFile' = Undefined
          /\ uploadedImage' = Undefined
          /\ uuid' = Undefined
          /\ data' = NoData
    \* a path or an id the run comes to hold was never handed out before
    /\ nextPath' >= nextPath
    /\ nextUuid' >= nextUuid
    /\ (uploadedFile' # uploadedFile /\ uploadedFile' # Undefined)
          => (uploadedFile' = nextPath /\ nextPath' > nextPath /\ nextPath \notin objects)
    /\ (uploadedImage' # uploadedImage /\ uploadedImage' # Undefined)
          => (uploadedImage' = nextPath /\ nextPath' > nextPath /\ nextPath \notin objects)
    /\ (uuid' # uuid /\ uuid' # Undefined)
          => (uuid' = nextUuid /\ nextUuid' > nextUuid
              /\ ~HasKey(kvStore, <<"resumeId:", nextUuid>>))

\* C15: Try Again is offered only after a step failed; it clears the file, the
\* error and the processing flag; no call is issued until a file is selected
\* again; the new run starts at the original upload, holds no path or id of the
\* failed run and generates a new id
C15_ManualRetry == [][C15_RetryStep]_vars

\* after a run that had generated id 3 failed and Try Again was pressed, a
\* second run has generated its own id
C15_Witness ==
    variant = "cleanup" /\ formKey = 1 /\ submissions = 2 /\ uuid = 4 /\ nextUuid = 5

\* C16: a submission that is over has either succeeded, or shows an error
\* message with the Try Again button; it has not both succeeded and failed
C16_TerminalOutcome ==
    /\ (pc \in {"failed", "rejected"} /\ isProcessing) => error # "null"
    /\ pc = "done" => (failedStep = 0 /\ page = ResumePage(uuid))

\* what the code does provide of C16: in the variant with try/catch, a
\* submission that has started reaches navigate or the error with Try Again,
\* every call returning or throwing
CleanupVariantTerminates ==
    (variant = "cleanup" /\ pc \in Running) ~> (pc = "done" \/ TryAgainOffered)

\* the entry is the one of the running submission
OwnEntry(e) == uuid # Undefined /\ e.key = <<"resumeId:", uuid>>

\* one step of the upload page, as C17 constrains it
C17_FrameStep ==
    \* what the earlier session stored is still there
    /\ {1, 2} \subseteq objects'
    /\ \E i \in DOMAIN kvStore' :
          kvStore'[i] = [key |-> <<"resumeId:", 2>>,
                         value |-> JSONstringify(Record(2, 1, 2, FeedbackObject))]
    \* an object that is not of this run stays
    /\ \A p \in objects : p \notin {uploadedFile, uploadedImage} => p \in objects'
    \* an entry that is not of this run stays as it is
    /\ \A e \in Range(kvStore) : ~OwnEntry(e) => e \in Range(kvStore')
    \* the compensating deletes name this run's paths and id
    /\ \A d \in pendingDeletes' :
          /\ d.target # Undefined
          /\ d.op = "fs.delete" => d.target \in {uploadedFile', uploadedImage'}
          /\ d.op = "kv.delete" => d.target = uuid'

\* C17: a submission and its compensating deletes change no object and no
\* Record Store entry but those of the submission itself; the deletes name only
\* the paths its uploads returned and the key of its id
C17_Frame == [][C17_FrameStep]_vars

\* a second run has failed and its compensating deletes have succeeded, while
\* an object a first run left behind is still in the Object Store
C17_Witness ==
    /\ variant = "cleanup" /\ submissions = 2 /\ pc = "failed" /\ failedStep = 5
    /\ ~cleanupThrew /\ pendingDeletes = {}
    /\ Cardinality(objects) > 2

\* C18: when handleDelete has finished, isDeleting is null; when one of its
\* deletes threw, the resumes list is the one it was before
C18_DeleteFinishes ==
    lastDelete.id # Undefined
        => /\ isDeleting = Undefined
           /\ lastDelete.threw => resumes = lastDelete.before

\* a handleDelete whose fs.delete(imagePath) threw has finished, the list
\* holding records
C18_Witness ==
    /\ lastDelete.id # Undefined /\ lastDelete.threw
    /\ Len(lastDelete.attempted) = 2
    /\ Len(resumes) >= 1

====
